---- MODULE Spec2Model ----
(***************************************************************************)
(* Model of cosmos-tx/src/tx/fee.rs: the Fee value type, its convenience   *)
(* constructor, and its conversions to and from the wire message           *)
(* cosmos::tx::v1beta1::Fee.                                               *)
(*                                                                         *)
(* Option<T> is a sequence of length 0 (None) or 1 (Some).  Result<T> is a *)
(* record [ok |-> TRUE, val |-> v] or [ok |-> FALSE, err |-> e].  A u64 is *)
(* four 16-bit limbs, most significant first, so that values up to 2^64-1  *)
(* are represented exactly.                                                *)
(***************************************************************************)
EXTENDS Integers, Sequences, FiniteSets, TLC

VARIABLES fee, proto, result, call

vars == <<fee, proto, result, call>>

\* Longest coin list drawn as an input.
MaxCoins == 2

None == <<>>
Some(x) == <<x>>
Ok(v) == [ok |-> TRUE, val |-> v]
Err(e) == [ok |-> FALSE, err |-> e]

(***************************************************************************)
(* u64 and Gas                                                             *)
(***************************************************************************)
LimbMax == 2^16 - 1
U64Zero == <<0, 0, 0, 0>>
U64Max == <<LimbMax, LimbMax, LimbMax, LimbMax>>
\* 0, 1, 2^32-1, 2^32, 2^63-1, 2^63, 2^64-1
U64Samples ==
    { U64Zero,
      <<0, 0, 0, 1>>,
      <<0, 0, LimbMax, LimbMax>>,
      <<0, 1, 0, 0>>,
      <<2^15 - 1, LimbMax, LimbMax, LimbMax>>,
      <<2^15, 0, 0, 0>>,
      U64Max }

\* Gas: a newtype over u64; From<u64> wraps, value() unwraps.
GasFrom(u) == [value |-> u]
GasValue(g) == g.value
GasSamples == {GasFrom(u) : u \in U64Samples}

(***************************************************************************)
(* AccountId: a human-readable prefix and key data, written as             *)
(* prefix "1" data; parsing is the inverse and fails on anything else.     *)
(***************************************************************************)
AccountIds ==
    { [hrp |-> "cosmos", data |-> "qqqq"],
      [hrp |-> "cosmos", data |-> "pppp"] }

AccountIdToString(id) == id.hrp \o "1" \o id.data

AccountIdFromStr(s) ==
    IF \E id \in AccountIds : AccountIdToString(id) = s
    THEN Ok(CHOOSE id \in AccountIds : AccountIdToString(id) = s)
    ELSE Err("invalid account id")

\* Wire strings for the payer and granter fields: empty, valid, malformed.
IdStrings == {""} \cup {AccountIdToString(id) : id \in AccountIds} \cup {"cosmos"}

(***************************************************************************)
(* Coin: a denomination and a decimal amount; on the wire both are strings.*)
(***************************************************************************)
Denoms == {"uatom", "stake"}
Amounts == {1, 25}

DecimalToString(n) ==
    CASE n = 0 -> "0"
      [] n = 1 -> "1"
      [] n = 25 -> "25"

DecimalFromStr(s) ==
    IF \E n \in {0, 1, 25} : DecimalToString(n) = s
    THEN Ok(CHOOSE n \in {0, 1, 25} : DecimalToString(n) = s)
    ELSE Err("invalid decimal")

DenomFromStr(s) == IF s \in Denoms THEN Ok(s) ELSE Err("invalid denom")

Coins == [denom : Denoms, amount : Amounts]

\* From<&Coin> for the wire coin
CoinToProto(c) == [denom |-> c.denom, amount |-> DecimalToString(c.amount)]

\* TryFrom<&wire coin> for Coin
CoinTryFrom(p) ==
    LET d == DenomFromStr(p.denom)
        a == DecimalFromStr(p.amount)
    IN  IF ~d.ok THEN d
        ELSE IF ~a.ok THEN a
        ELSE Ok([denom |-> d.val, amount |-> a.val])

ProtoCoins == [denom : Denoms \cup {"U"}, amount : {"1", "25", "-"}]

(***************************************************************************)
(* Fee and the wire Fee message                                            *)
(***************************************************************************)
\* Fees and wire messages whose coin list has k entries.
Fees(k) ==
    [ amount : [1..k -> Coins],
      gas_limit : GasSamples,
      payer : {None} \cup {Some(id) : id \in AccountIds},
      granter : {None} \cup {Some(id) : id \in AccountIds} ]

ProtoFees(k) ==
    [ amount : [1..k -> ProtoCoins],
      gas_limit : U64Samples,
      payer : IdStrings,
      granter : IdStrings ]

\* Variant of from_amount_and_gas that drops the gas argument for the default.
from_amount_and_gas_default_gas(amount, gas_limit) ==
    [ amount |-> <<amount>>,
      gas_limit |-> GasFrom(U64Zero),
      payer |-> None,
      granter |-> None ]

\* Fee::from_amount_and_gas
from_amount_and_gas(amount, gas_limit) ==
    [ amount |-> <<amount>>,
      gas_limit |-> GasFrom(gas_limit),
      payer |-> None,
      granter |-> None ]

\* proto.amount.iter().map(TryFrom::try_from).collect::<Result<_, _>>()?
RECURSIVE CollectCoins(_, _, _)
CollectCoins(coins, i, acc) ==
    IF i > Len(coins) THEN Ok(acc)
    ELSE LET r == CoinTryFrom(coins[i])
         IN  IF r.ok THEN CollectCoins(coins, i + 1, Append(acc, r.val))
             ELSE r

\* Variant of DecodeAmount that skips the entries that fail to convert.
RECURSIVE CollectCoinsBestEffort(_, _, _)
CollectCoinsBestEffort(coins, i, acc) ==
    IF i > Len(coins) THEN Ok(acc)
    ELSE LET r == CoinTryFrom(coins[i])
         IN  CollectCoinsBestEffort(coins, i + 1,
                                    IF r.ok THEN Append(acc, r.val) ELSE acc)

DecodeAmountBestEffort(coins) == CollectCoinsBestEffort(coins, 1, <<>>)

DecodeAmount(coins) == CollectCoins(coins, 1, <<>>)

\* The loop over [&proto.payer, &proto.granter] filling accounts[index].
RECURSIVE AccountsLoop(_, _, _)
AccountsLoop(p, index, accounts) ==
    IF index > 2 THEN Ok(accounts)
    ELSE LET id == <<p.payer, p.granter>>[index]
         IN  IF id = ""
             THEN AccountsLoop(p, index + 1, [accounts EXCEPT ![index] = None])
             ELSE LET r == AccountIdFromStr(p.payer)
                  IN  IF r.ok
                      THEN AccountsLoop(p, index + 1,
                                        [accounts EXCEPT ![index] = Some(r.val)])
                      ELSE r

DecodeAccounts(p) == AccountsLoop(p, 1, <<None, None>>)

\* TryFrom<&cosmos::tx::v1beta1::Fee> for Fee
FeeTryFrom(p) ==
    LET amount == DecodeAmount(p.amount)
    IN  IF ~amount.ok THEN amount
        ELSE LET gas_limit == GasFrom(p.gas_limit)
                 accounts == DecodeAccounts(p)
             IN  IF ~accounts.ok THEN accounts
                 ELSE Ok([ amount |-> amount.val,
                           gas_limit |-> gas_limit,
                           payer |-> accounts.val[1],
                           granter |-> accounts.val[2] ])

\* Variant of EncodeAmount that emits the coins in reverse order.
EncodeAmountReversed(coins) ==
    [i \in 1..Len(coins) |-> CoinToProto(coins[Len(coins) + 1 - i])]

\* fee.amount.iter().map(Into::into).collect()
EncodeAmount(coins) == [i \in 1..Len(coins) |-> CoinToProto(coins[i])]

\* id.as_ref().map(|id| id.to_string()).unwrap_or_default()
EncodeAccount(opt) == IF opt = None THEN "" ELSE AccountIdToString(opt[1])

\* Variant of FeeToProto that writes each identifier into the other field.
FeeToProtoSwapped(f) ==
    [ amount |-> EncodeAmount(f.amount),
      gas_limit |-> GasValue(f.gas_limit),
      payer |-> EncodeAccount(f.granter),
      granter |-> EncodeAccount(f.payer) ]

\* Variant of FeeToProto that narrows the gas limit to 32 bits.
FeeToProtoTruncGas(f) ==
    [ amount |-> EncodeAmount(f.amount),
      gas_limit |-> <<0, 0, GasValue(f.gas_limit)[3], GasValue(f.gas_limit)[4]>>,
      payer |-> EncodeAccount(f.payer),
      granter |-> EncodeAccount(f.granter) ]

\* From<&Fee> for cosmos::tx::v1beta1::Fee
FeeToProto(f) ==
    [ amount |-> EncodeAmount(f.amount),
      gas_limit |-> GasValue(f.gas_limit),
      payer |-> EncodeAccount(f.payer),
      granter |-> EncodeAccount(f.granter) ]

(***************************************************************************)
(* The state machine: a caller builds a Fee or receives a wire message,    *)
(* then encodes or decodes.  A Fee is immutable once built, so a behaviour *)
(* follows one value through the conversions.  `call` records the last     *)
(* operation and its arguments.                                            *)
(***************************************************************************)
Init ==
    /\ fee = None
    /\ proto = None
    /\ result = None
    /\ call = [op |-> "init"]

\* A caller builds a Fee from its public fields.
Construct ==
    /\ fee = None /\ proto = None
    /\ \E k \in 0..MaxCoins : \E f \in Fees(k) : fee' = Some(f)
    /\ proto' = None
    /\ result' = None
    /\ call' = [op |-> "construct"]

FromAmountAndGas ==
    /\ fee = None /\ proto = None
    /\ \E c \in Coins, g \in U64Samples :
          /\ fee' = Some(from_amount_and_gas(c, g))
          /\ call' = [op |-> "from_amount_and_gas", amount |-> c, gas_limit |-> g]
    /\ proto' = None
    /\ result' = None

\* A wire message arrives from outside.
Receive ==
    /\ fee = None /\ proto = None
    /\ \E k \in 0..MaxCoins : \E p \in ProtoFees(k) : proto' = Some(p)
    /\ fee' = None
    /\ result' = None
    /\ call' = [op |-> "receive"]

Encode ==
    /\ fee # None
    /\ proto' = Some(FeeToProto(fee[1]))
    /\ result' = None
    /\ call' = [op |-> "encode"]
    /\ UNCHANGED fee

Decode ==
    /\ proto # None
    /\ result' = Some(FeeTryFrom(proto[1]))
    /\ call' = [op |-> "decode"]
    /\ UNCHANGED <<fee, proto>>

Next ==
    \/ Construct
    \/ FromAmountAndGas
    \/ Receive
    \/ Encode
    \/ Decode

Spec == Init /\ [][Next]_vars

(***************************************************************************)
(* Properties                                                              *)
(***************************************************************************)
Encoded == call.op = "encode"
Decoded == call.op = "decode"
\* The decoded message is the encoding of `fee`.
RoundTripped == Decoded /\ fee # None

Malformed(s) == s # "" /\ ~AccountIdFromStr(s).ok
EmptyOrValid(s) == s = "" \/ AccountIdFromStr(s).ok
CoinsValid(coins) == \A i \in 1..Len(coins) : CoinTryFrom(coins[i]).ok
IsU64(u) == Len(u) = 4 /\ \A i \in 1..4 : u[i] \in 0..LimbMax

\* C1: encoding a Fee with a non-empty coin list and then decoding the
\* message succeeds and yields a Fee equal to the original, for every
\* combination of present and absent payer and granter.
C1_RoundTrip ==
    (RoundTripped /\ fee[1].amount # <<>>) => result[1] = Ok(fee[1])

\* C2: a wire message whose payer or granter string is non-empty and not a
\* valid account identifier makes decoding fail, whatever the other string.
C2_MalformedIdFails ==
    (Decoded /\ (Malformed(proto[1].payer) \/ Malformed(proto[1].granter)))
        => ~result[1].ok

\* C3: a wire message whose coins are all valid and whose payer and granter
\* strings are each empty or a valid identifier decodes successfully.
C3_ValidDecodes ==
    (Decoded /\ CoinsValid(proto[1].amount)
             /\ EmptyOrValid(proto[1].payer) /\ EmptyOrValid(proto[1].granter))
        => result[1].ok

\* C4: with valid coins, an empty payer string decodes to payer = None and an
\* empty granter string decodes to granter = None, whether the other string
\* is empty or a valid identifier.
C4_EmptyDecodesToNone ==
    (Decoded /\ CoinsValid(proto[1].amount)
             /\ EmptyOrValid(proto[1].payer) /\ EmptyOrValid(proto[1].granter))
        => /\ proto[1].payer = "" => (result[1].ok /\ result[1].val.payer = None)
           /\ proto[1].granter = "" => (result[1].ok /\ result[1].val.granter = None)

\* C5: the encoded message has an empty payer string exactly when payer is
\* None and an empty granter string exactly when granter is None; a present
\* identifier is written, in its non-empty string form, to the field of the
\* same name.
C5_EncodeAbsence ==
    Encoded =>
        LET f == fee[1]
            p == proto[1]
        IN  /\ (p.payer = "") <=> (f.payer = None)
            /\ (p.granter = "") <=> (f.granter = None)
            /\ f.payer # None => p.payer = AccountIdToString(f.payer[1])
            /\ f.granter # None => p.granter = AccountIdToString(f.granter[1])

C5_Witness ==
    /\ Encoded
    /\ fee[1].payer = None /\ fee[1].granter # None
    /\ proto[1].payer = "" /\ proto[1].granter # ""

\* C6: encoding a Fee whose gas limit is g writes exactly g to the wire,
\* decoding a wire gas limit g gives a Fee whose gas limit has value g, and
\* a round trip returns the same 64-bit value.
C6_GasFidelity ==
    /\ Encoded =>
         /\ IsU64(proto[1].gas_limit)
         /\ \A g \in U64Samples :
              fee[1].gas_limit = GasFrom(g) => proto[1].gas_limit = g
    /\ (Decoded /\ result[1].ok) =>
         \A g \in U64Samples :
              proto[1].gas_limit = g => GasValue(result[1].val.gas_limit) = g
    /\ (RoundTripped /\ result[1].ok) =>
         result[1].val.gas_limit = fee[1].gas_limit

C6_Witness ==
    /\ RoundTripped /\ result[1].ok
    /\ fee[1].gas_limit = GasFrom(U64Max)
    /\ proto[1].gas_limit = U64Max
    /\ GasValue(result[1].val.gas_limit) = U64Max

\* C7: from_amount_and_gas(c, g) returns a Fee whose amount is the one-entry
\* sequence <<c>>, whose gas limit is g, and whose payer and granter are None.
C7_Constructor ==
    call.op = "from_amount_and_gas" =>
        /\ fee # None
        /\ Len(fee[1].amount) = 1
        /\ fee[1].amount[1] = call.amount
        /\ GasValue(fee[1].gas_limit) = call.gas_limit
        /\ fee[1].payer = None
        /\ fee[1].granter = None

C7_Witness ==
    /\ call.op = "from_amount_and_gas"
    /\ call.gas_limit = U64Max
    /\ fee[1].amount = <<[denom |-> "uatom", amount |-> 25]>>

\* C8: after a successful decode, a non-empty granter string has been parsed
\* into granter and a non-empty payer string into payer, each from its own
\* wire string.
C8_FieldWiseIds ==
    (Decoded /\ result[1].ok) =>
        /\ proto[1].granter # "" =>
             /\ result[1].val.granter # None
             /\ AccountIdFromStr(proto[1].granter) = Ok(result[1].val.granter[1])
        /\ proto[1].payer # "" =>
             /\ result[1].val.payer # None
             /\ AccountIdFromStr(proto[1].payer) = Ok(result[1].val.payer[1])

\* C9: a wire message with at least one coin entry that fails its conversion
\* makes decoding fail and yields no Fee, whatever the payer and granter
\* strings and the other coin entries are.
C9_MalformedCoinFails ==
    (Decoded /\ ~CoinsValid(proto[1].amount)) =>
        /\ ~result[1].ok
        /\ "val" \notin DOMAIN result[1]

C9_Witness ==
    /\ Decoded
    /\ Len(proto[1].amount) = 2
    /\ CoinTryFrom(proto[1].amount[1]).ok
    /\ ~CoinTryFrom(proto[1].amount[2]).ok
    /\ proto[1].payer # "" /\ AccountIdFromStr(proto[1].payer).ok
    /\ proto[1].granter = ""
    /\ ~result[1].ok

\* C10: encoding never fails and gives a wire coin list of the same length
\* whose i-th entry is the conversion of the i-th coin; a successful decode
\* gives an amount sequence of the same length and order as the wire list.
C10_AmountPreserved ==
    /\ fee # None => ENABLED Encode
    /\ Encoded =>
         /\ Len(proto[1].amount) = Len(fee[1].amount)
         /\ \A i \in 1..Len(fee[1].amount) :
              proto[1].amount[i] = CoinToProto(fee[1].amount[i])
    /\ (Decoded /\ result[1].ok) =>
         /\ Len(result[1].val.amount) = Len(proto[1].amount)
         /\ \A i \in 1..Len(proto[1].amount) :
              CoinTryFrom(proto[1].amount[i]) = Ok(result[1].val.amount[i])

C10_Witness ==
    /\ RoundTripped /\ result[1].ok
    /\ Len(fee[1].amount) = 2
    /\ fee[1].amount[1] # fee[1].amount[2]
    /\ result[1].val.amount = fee[1].amount

====
